---------------------------- MODULE Spec2Model ----------------------------
(***************************************************************************)
(* Model of app.py, the two-ticker stock comparison dashboard.             *)
(*                                                                         *)
(* A run of main() is one pass of the script: the sidebar widgets, two     *)
(* history fetches, two name look-ups, the two yearly-performance          *)
(* computations, display_results, and the general-info/news sections.      *)
(* The script is run again from the top on every UI interaction (Rerun).   *)
(*                                                                         *)
(* Values.  A DataFrame is [kind, rows, columns]; rows is the price        *)
(* history in date order, each row a (year, Close) pair, the year being    *)
(* the only part of the date the program looks at.  Closing prices are     *)
(* positive.  A float is the exact rational [kind, num, den]; the float    *)
(* NaN is 0/0.  Python's None is the value None.                           *)
(***************************************************************************)
EXTENDS Integers, Sequences, FiniteSets, TLC

VARIABLES pc, ticker1, ticker2, compare, data1, data2,
          performance1, performance2, shown, trace, lastCall

vars == <<pc, ticker1, ticker2, compare, data1, data2,
          performance1, performance2, shown, trace, lastCall>>

--------------------------------------------------------------------------
(* Bounds and program constants *)

NumYears == 3
MaxLen == 3
MaxPrice == 2
FirstYear == 2015
DEFAULT_INVESTMENT == 100

Years == FirstYear..(FirstYear + NumYears - 1)
Prices == 1..MaxPrice

--------------------------------------------------------------------------
(* Values *)

None == [kind |-> "None"]
Exception == [kind |-> "Exception"]

Float(n, d) == [kind |-> "float", num |-> n, den |-> d]
NaN == Float(0, 0)
isna(v) == v.num = 0 /\ v.den = 0

\* a / b on floats, b = 0 giving nan (0/0) or inf (n/0)
Div(a, b) ==
    IF isna(a) \/ isna(b) THEN NaN
    ELSE LET n == a.num * b.den
             d == a.den * b.num
         IN  IF d < 0 THEN Float(-n, -d) ELSE Float(n, d)
Sub(a, b) ==
    IF isna(a) \/ isna(b) THEN NaN
    ELSE Float(a.num * b.den - b.num * a.den, a.den * b.den)
Mul(a, b) ==
    IF isna(a) \/ isna(b) THEN NaN
    ELSE Float(a.num * b.num, a.den * b.den)
\* a > b; a comparison with nan is False
Gt(a, b) ==
    /\ ~isna(a)
    /\ ~isna(b)
    /\ a.num * b.den > b.num * a.den
Eq(a, b) ==
    /\ ~isna(a)
    /\ ~isna(b)
    /\ a.num * b.den = b.num * a.den
Price(c) == Float(c, 1)

DataFrame(rows, columns) == [kind |-> "DataFrame", rows |-> rows, columns |-> columns]
Series(rows) == [kind |-> "Series", rows |-> rows]

\* price histories: at most MaxLen rows in date order
IsSorted(s) == \A i \in 1..(Len(s) - 1) : s[i].year <= s[i + 1].year
Histories ==
    {s \in UNION {[1..n -> [year : Years, Close : Prices]] : n \in 0..MaxLen} : IsSorted(s)}

\* what stock.history() can do: raise, or return a frame (possibly empty)
ApiError == [kind |-> "ApiError"]
Responses == {ApiError} \cup {DataFrame(s, {"Close"}) : s \in Histories}

\* the responses drawn in a compare run, where two histories are in play at
\* once: those dated in the first two years with a close of 1 or 2
ApiYears == {FirstYear, FirstYear + 1}
ApiCloses == {1, 2}
RunResponses ==
    {r \in Responses :
        r = ApiError \/ \A i \in 1..Len(r.rows) :
                            r.rows[i].year \in ApiYears /\ r.rows[i].Close \in ApiCloses}

Raise == [raised |-> TRUE, value |-> Exception]
Return(v) == [raised |-> FALSE, value |-> v]

----------
(* handle_exceptions *)

handle_exceptions_reraise(outcome) == outcome.value

handle_exceptions(outcome) ==
    IF outcome.raised THEN None ELSE outcome.value

--------------------------------------------------------------------------
(* get_stock_data *)

\* the body: stock.history(start=start_date), then the 'Year' column
get_stock_data_body(ticker, resp) ==
    IF resp = ApiError THEN Raise
    ELSE Return(DataFrame(resp.rows, resp.columns \cup {"Year"}))

get_stock_data(ticker, resp) == handle_exceptions(get_stock_data_body(ticker, resp))

--------------------------------------------------------------------------
(* calculate_yearly_performance *)

\* data['Close'].resample('Y'): one bin per calendar year from the year of the
\* first row to the year of the last row, the rows of each bin in date order
resample(rows) ==
    IF rows = <<>> THEN <<>>
    ELSE [k \in 1..(rows[Len(rows)].year - rows[1].year + 1) |->
             LET y == rows[1].year + k - 1
             IN  [year |-> y, idx |-> {i \in 1..Len(rows) : rows[i].year = y}]]

Min(S) == CHOOSE m \in S : \A n \in S : m <= n
Max(S) == CHOOSE m \in S : \A n \in S : m >= n

\* .first() / .last() of a bin; an empty bin gives NaN
first(rows, bin) == IF bin.idx = {} THEN NaN ELSE Price(rows[Min(bin.idx)].Close)
last(rows, bin) == IF bin.idx = {} THEN NaN ELSE Price(rows[Max(bin.idx)].Close)

notna(entry) == ~isna(entry.value)
dropna(entries) == SelectSeq(entries, notna)

yearly_returns_max(rows) ==
    LET bins == resample(rows)
    IN  [k \in 1..Len(bins) |->
            LET lo == IF bins[k].idx = {} THEN NaN
                      ELSE Price(Min({rows[i].Close : i \in bins[k].idx}))
                hi == IF bins[k].idx = {} THEN NaN
                      ELSE Price(Max({rows[i].Close : i \in bins[k].idx}))
            IN  [year |-> bins[k].year,
                 value |-> Mul(Div(Sub(hi, lo), lo), Float(100, 1))]]

\* ((yearly_close - yearly_open) / yearly_open) * 100, before dropna
yearly_returns(rows) ==
    LET bins == resample(rows)
    IN  [k \in 1..Len(bins) |->
            LET yearly_open == first(rows, bins[k])
                yearly_close == last(rows, bins[k])
            IN  [year |-> bins[k].year,
                 value |-> Mul(Div(Sub(yearly_close, yearly_open), yearly_open),
                               Float(100, 1))]]

calculate_yearly_performance_body(data) ==
    IF "Close" \notin data.columns THEN Raise
    ELSE Return(Series(dropna(yearly_returns(data.rows))))

calculate_yearly_performance(data) ==
    handle_exceptions(calculate_yearly_performance_body(data))

--------------------------------------------------------------------------
(* calculate_investment_growth *)

calculate_investment_growth_body_gain(data, initial_investment) ==
    IF "Close" \notin data.columns \/ data.rows = <<>> THEN Raise
    ELSE LET initial_price == Price(data.rows[1].Close)
             current_price == Price(data.rows[Len(data.rows)].Close)
         IN  Return(Mul(Div(Sub(current_price, initial_price), initial_price),
                        Float(initial_investment, 1)))

\* data['Close'].iloc[0] and .iloc[-1]: KeyError without the column,
\* IndexError on an empty frame
calculate_investment_growth_body(data, initial_investment) ==
    IF "Close" \notin data.columns \/ data.rows = <<>> THEN Raise
    ELSE LET initial_price == Price(data.rows[1].Close)
             current_price == Price(data.rows[Len(data.rows)].Close)
         IN  Return(Mul(Div(current_price, initial_price),
                        Float(initial_investment, 1)))

calculate_investment_growth(data, initial_investment) ==
    handle_exceptions(calculate_investment_growth_body(data, initial_investment))

--------------------------------------------------------------------------
(* display_results *)

RECURSIVE sum(_)
sum(s) == IF s = <<>> THEN 0 ELSE s[1] + sum(Tail(s))

index(p) == [k \in 1..Len(p.rows) |-> p.rows[k].year]
values(p) == [k \in 1..Len(p.rows) |-> p.rows[k].value]

\* (a > b).astype(int).sum() for two identically-labelled series
wins_ge(a, b) ==
    sum([k \in 1..Len(a.rows) |-> IF ~Gt(b.rows[k].value, a.rows[k].value) THEN 1 ELSE 0])

wins(a, b) ==
    sum([k \in 1..Len(a.rows) |-> IF Gt(a.rows[k].value, b.rows[k].value) THEN 1 ELSE 0])

\* comparison_df[[ticker1, ticker2]].idxmax(axis=1) on one row: the label of
\* the first column that holds the row's maximum
idxmax(row, t1, t2) == IF Gt(row[t2], row[t1]) THEN t2 ELSE t1

\* the DataFrame built from the dict {'Year', ticker1, ticker2}, then 'Winner';
\* with ticker1 = ticker2 the dict has one ticker key and keeps the later value
comparison_df(t1, t2, p1, p2) ==
    [k \in 1..Len(p1.rows) |->
        LET row == [t \in {t1, t2} |-> IF t = t2 THEN values(p2)[k] ELSE values(p1)[k]]
        IN  [Year |-> index(p1)[k], cols |-> row, Winner |-> idxmax(row, t1, t2)]]

NoResults ==
    [error |-> FALSE, scores |-> <<>>, grid |-> <<>>, investment |-> <<>>, events |-> <<>>]

\* the try body up to the first statement that raises; `error` is the except
\* branch (st.error).  Comparing None, or two series whose indexes differ,
\* raises at the scoreboard line, before anything is written.
display_results(t1, t2, p1, p2, d1, d2) ==
    IF p1 = None \/ p2 = None \/ index(p1) # index(p2)
    THEN [NoResults EXCEPT !.error = TRUE, !.events = <<"error">>]
    ELSE LET investment1 == calculate_investment_growth(d1, DEFAULT_INVESTMENT)
             investment2 == calculate_investment_growth(d2, DEFAULT_INVESTMENT)
             before == <<"scoreboard", "grid", "chart_normalized", "chart",
                         "growth1", "growth2">>
         IN  IF investment1 = None \/ investment2 = None
             THEN [error |-> TRUE,
                   scores |-> <<wins(p1, p2), wins(p2, p1)>>,
                   grid |-> comparison_df(t1, t2, p1, p2),
                   investment |-> <<>>,
                   events |-> before \o <<"error">>]
             ELSE [error |-> FALSE,
                   scores |-> <<wins(p1, p2), wins(p2, p1)>>,
                   grid |-> comparison_df(t1, t2, p1, p2),
                   investment |-> <<investment1, investment2>>,
                   events |-> before \o <<"investment", "yearly_chart">>]

\* display_stock_prices_chart_normalized adds a column to both frames
normalized(d) == [d EXCEPT !.columns = @ \cup {"Normalized_Price"}]

--------------------------------------------------------------------------
(* main: one run of the script *)

Unbound == [kind |-> "unbound"]
NoCall == [fn |-> "", outcome |-> Return(None), returned |-> None]
Call(fn, outcome) == [fn |-> fn, outcome |-> outcome, returned |-> handle_exceptions(outcome)]

Init ==
    /\ pc = "start"
    /\ ticker1 = "AAPL"
    /\ ticker2 = "MSFT"
    /\ compare = FALSE
    /\ data1 = Unbound
    /\ data2 = Unbound
    /\ performance1 = Unbound
    /\ performance2 = Unbound
    /\ shown = NoResults
    /\ trace = <<>>
    /\ lastCall = NoCall

\* the sidebar: the two text inputs (at their defaults), the date input, the button
Widgets ==
    /\ pc = "start"
    /\ \E b \in BOOLEAN :
          /\ compare' = b
          /\ pc' = IF b THEN "fetch1" ELSE "title"
    /\ trace' = Append(trace, "widgets")
    /\ UNCHANGED <<ticker1, ticker2, data1, data2, performance1, performance2,
                   shown, lastCall>>

Title ==
    /\ pc = "title"
    /\ trace' = Append(trace, "title")
    /\ pc' = "done"
    /\ UNCHANGED <<ticker1, ticker2, compare, data1, data2, performance1,
                   performance2, shown, lastCall>>

Fetch1Retry ==
    /\ pc = "fetch1"
    /\ \E resp \in RunResponses :
          /\ data1' = get_stock_data(ticker1, resp)
          /\ lastCall' = Call("get_stock_data", get_stock_data_body(ticker1, resp))
          /\ pc' = IF resp = ApiError /\ Len(trace) < 2 THEN "fetch1" ELSE "fetch2"
    /\ trace' = Append(trace, "fetch1")
    /\ UNCHANGED <<ticker1, ticker2, compare, data2, performance1, performance2, shown>>

Fetch1 ==
    /\ pc = "fetch1"
    /\ \E resp \in RunResponses :
          /\ data1' = get_stock_data(ticker1, resp)
          /\ lastCall' = Call("get_stock_data", get_stock_data_body(ticker1, resp))
    /\ trace' = Append(trace, "fetch1")
    /\ pc' = "fetch2"
    /\ UNCHANGED <<ticker1, ticker2, compare, data2, performance1, performance2, shown>>

Fetch2 ==
    /\ pc = "fetch2"
    /\ \E resp \in RunResponses :
          /\ data2' = get_stock_data(ticker2, resp)
          /\ lastCall' = Call("get_stock_data", get_stock_data_body(ticker2, resp))
    /\ trace' = Append(trace, "fetch2")
    /\ pc' = "name1"
    /\ UNCHANGED <<ticker1, ticker2, compare, data1, performance1, performance2, shown>>

\* get_name is not wrapped: stock.info raising ends the run
GetName(at, next) ==
    /\ pc = at
    /\ \E raised \in BOOLEAN :
          pc' = IF raised THEN "crashed" ELSE next
    /\ trace' = Append(trace, at)
    /\ UNCHANGED <<ticker1, ticker2, compare, data1, data2, performance1,
                   performance2, shown, lastCall>>

GetName1 == GetName("name1", "name2")
GetName2 == GetName("name2", "header")

\* `not data1.empty and not data2.empty`, left to right; .empty of None raises
EmptyCheck(d1, d2) ==
    IF d1 = None THEN "crashed"
    ELSE IF d1.rows = <<>> THEN "done"
    ELSE IF d2 = None THEN "crashed"
    ELSE IF d2.rows = <<>> THEN "done"
    ELSE "calc1"

\* st.subheader("Comparing ..."), then the test of line 379
Header ==
    /\ pc = "header"
    /\ trace' = Append(trace, "subheader")
    /\ pc' = EmptyCheck(data1, data2)
    /\ UNCHANGED <<ticker1, ticker2, compare, data1, data2, performance1,
                   performance2, shown, lastCall>>

Calc1 ==
    /\ pc = "calc1"
    /\ performance1' = calculate_yearly_performance(data1)
    /\ lastCall' = Call("calculate_yearly_performance",
                        calculate_yearly_performance_body(data1))
    /\ trace' = Append(trace, "calc1")
    /\ pc' = "calc2"
    /\ UNCHANGED <<ticker1, ticker2, compare, data1, data2, performance2, shown>>

Calc2 ==
    /\ pc = "calc2"
    /\ performance2' = calculate_yearly_performance(data2)
    /\ lastCall' = Call("calculate_yearly_performance",
                        calculate_yearly_performance_body(data2))
    /\ trace' = Append(trace, "calc2")
    /\ pc' = "results"
    /\ UNCHANGED <<ticker1, ticker2, compare, data1, data2, performance1, shown>>

DisplayResults ==
    /\ pc = "results"
    /\ LET r == display_results(ticker1, ticker2, performance1, performance2, data1, data2)
       IN  /\ shown' = r
           /\ trace' = Append(trace, "display_results") \o r.events
           /\ data1' = IF r.scores = <<>> THEN data1 ELSE normalized(data1)
           /\ data2' = IF r.scores = <<>> THEN data2 ELSE normalized(data2)
           /\ lastCall' = IF r.scores = <<>> THEN lastCall
                          ELSE Call("display_yearly_performance_comparison", Return(None))
    /\ pc' = "info1"
    /\ UNCHANGED <<ticker1, ticker2, compare, performance1, performance2>>

\* display_general_info and display_news: wrapped, the body may raise part-way
Section(at, fn, next) ==
    /\ pc = at
    /\ \E raised \in BOOLEAN :
          lastCall' = Call(fn, IF raised THEN Raise ELSE Return(None))
    /\ trace' = Append(trace, at)
    /\ pc' = next
    /\ UNCHANGED <<ticker1, ticker2, compare, data1, data2, performance1,
                   performance2, shown>>

Info1 == Section("info1", "display_general_info", "info2")
Info2 == Section("info2", "display_general_info", "news1")
News1 == Section("news1", "display_news", "news2")
News2 == Section("news2", "display_news", "done")

\* the next UI interaction runs the script again from the top; main's
\* variables are locals and the module keeps nothing but constants
Rerun ==
    /\ pc \in {"done", "crashed"}
    /\ pc' = "start"
    /\ ticker1' = "AAPL"
    /\ ticker2' = "MSFT"
    /\ compare' = FALSE
    /\ data1' = Unbound
    /\ data2' = Unbound
    /\ performance1' = Unbound
    /\ performance2' = Unbound
    /\ shown' = NoResults
    /\ trace' = <<>>
    /\ lastCall' = NoCall

Next ==
    \/ Widgets
    \/ Title
    \/ Fetch1
    \/ Fetch2
    \/ GetName1
    \/ GetName2
    \/ Header
    \/ Calc1
    \/ Calc2
    \/ DisplayResults
    \/ Info1
    \/ Info2
    \/ News1
    \/ News2
    \/ Rerun

Spec == Init /\ [][Next]_vars

--------------------------------------------------------------------------
(* The wrapped functions applied one at a time to an input *)

\* the frames a caller can pass: with or without the 'Close' column
Frames == {DataFrame(s, c) : s \in Histories, c \in {{"Close", "Year"}, {"Year"}}}

InitFunctions ==
    /\ pc = "fn"
    /\ ticker1 = "AAPL"
    /\ ticker2 = "MSFT"
    /\ compare = TRUE
    /\ data1 \in Responses \cup Frames
    /\ data2 = Unbound
    /\ performance1 = Unbound
    /\ performance2 = Unbound
    /\ shown = NoResults
    /\ trace = <<>>
    /\ lastCall = NoCall

\* data2 = get_stock_data(ticker1, ...) with data1 as the API's answer
ApplyFetch ==
    /\ pc = "fn"
    /\ data1 \in Responses
    /\ data2' = get_stock_data(ticker1, data1)
    /\ lastCall' = Call("get_stock_data", get_stock_data_body(ticker1, data1))
    /\ pc' = "fn_fetch"
    /\ UNCHANGED <<ticker1, ticker2, compare, data1, performance1, performance2,
                   shown, trace>>

ApplyYearly ==
    /\ pc = "fn"
    /\ data1 \in Frames
    /\ performance1' = calculate_yearly_performance(data1)
    /\ lastCall' = Call("calculate_yearly_performance",
                        calculate_yearly_performance_body(data1))
    /\ pc' = "fn_yearly"
    /\ UNCHANGED <<ticker1, ticker2, compare, data1, data2, performance2, shown, trace>>

ApplyGrowth ==
    /\ pc = "fn"
    /\ data1 \in Frames
    /\ shown' = [NoResults EXCEPT
                   !.investment = <<calculate_investment_growth(data1, DEFAULT_INVESTMENT)>>]
    /\ lastCall' = Call("calculate_investment_growth",
                        calculate_investment_growth_body(data1, DEFAULT_INVESTMENT))
    /\ pc' = "fn_growth"
    /\ UNCHANGED <<ticker1, ticker2, compare, data1, data2, performance1,
                   performance2, trace>>

ApplyDisplay ==
    /\ pc = "fn"
    /\ \E raised \in BOOLEAN :
          lastCall' = Call("display_news", IF raised THEN Raise ELSE Return(None))
    /\ pc' = "fn_display"
    /\ UNCHANGED <<ticker1, ticker2, compare, data1, data2, performance1,
                   performance2, shown, trace>>

NextFunctions ==
    \/ ApplyFetch
    \/ ApplyYearly
    \/ ApplyGrowth
    \/ ApplyDisplay

SpecFunctions == InitFunctions /\ [][NextFunctions]_vars

--------------------------------------------------------------------------
(* Properties *)

RowsOf(rows, y) == {i \in 1..Len(rows) : rows[i].year = y}
EntriesFor(p, y) == {k \in 1..Len(p.rows) : p.rows[k].year = y}
FirstClose(rows, S) == rows[CHOOSE i \in S : \A j \in S : i <= j].Close
LastClose(rows, S) == rows[CHOOSE i \in S : \A j \in S : i >= j].Close
PercentChange(start, end) == Float((end - start) * 100, start)

Pos(e) == {i \in 1..Len(trace) : trace[i] = e}
Happened(e) == Pos(e) # {}

\* C1: for a series with a 'Close' column, calculate_yearly_performance has,
\* for each calendar year with at least one close, exactly one entry, equal to
\* (last close of the year - first close of the year) / first close * 100,
\* and no entry for a year without a close.
C1_YearlyPerformance ==
    (pc = "fn_yearly" /\ "Close" \in data1.columns) =>
        /\ performance1.kind = "Series"
        /\ \A k \in 1..Len(performance1.rows) : performance1.rows[k].year \in Years
        /\ \A y \in Years :
              LET S == RowsOf(data1.rows, y)
                  E == EntriesFor(performance1, y)
              IN  IF S = {} THEN E = {}
                  ELSE /\ Cardinality(E) = 1
                       /\ \A k \in E :
                             Eq(performance1.rows[k].value,
                                PercentChange(FirstClose(data1.rows, S),
                                              LastClose(data1.rows, S)))

\* a series with a year of no data between two years of data, and a year
\* whose close moved
C1_Witness ==
    /\ pc = "fn_yearly"
    /\ "Close" \in data1.columns
    /\ \E y \in Years :
          /\ RowsOf(data1.rows, y) = {}
          /\ RowsOf(data1.rows, y - 1) # {}
          /\ RowsOf(data1.rows, y + 1) # {}
    /\ Len(performance1.rows) = 2
    /\ \E k \in 1..Len(performance1.rows) : Gt(performance1.rows[k].value, Float(0, 1))

\* C3: a wrapped call whose body raises returns None, and one whose body
\* does not raise returns the body's result; the caller receives that value.
C3_HandleExceptions ==
    (pc \in {"fn_fetch", "fn_yearly", "fn_growth", "fn_display"}) =>
        /\ lastCall.outcome.raised => lastCall.returned = None
        /\ ~lastCall.outcome.raised => lastCall.returned = lastCall.outcome.value
        /\ pc = "fn_fetch" =>
              /\ data2 = lastCall.returned
              /\ data1 = ApiError => data2 = None
              /\ data1 # ApiError => data2.kind = "DataFrame" /\ data2.rows = data1.rows
        /\ pc = "fn_yearly" =>
              /\ performance1 = lastCall.returned
              /\ "Close" \notin data1.columns => performance1 = None
              /\ "Close" \in data1.columns => performance1.kind = "Series"
        /\ pc = "fn_growth" =>
              /\ shown.investment[1] = lastCall.returned
              /\ data1.rows = <<>> => shown.investment[1] = None
              /\ ("Close" \in data1.columns /\ data1.rows # <<>>) =>
                     shown.investment[1].kind = "float"

\* calculate_yearly_performance raising ValueError for a frame without 'Close'
C3_Witness ==
    /\ pc = "fn_yearly"
    /\ "Close" \notin data1.columns
    /\ lastCall.outcome.raised
    /\ performance1 = None

\* C5: one pass in a fixed order: widgets, fetch 1, fetch 2, the two yearly
\* computations, the results; nothing is computed before both fetches, no
\* result is rendered before both computations, and no step (a fetch in
\* particular, failed or not) happens twice in a run.
ComputeEvents == {"calc1", "calc2", "growth1", "growth2"}
ResultEvents ==
    {"display_results", "scoreboard", "grid", "chart_normalized", "chart",
     "investment", "yearly_chart", "error", "info1", "info2", "news1", "news2"}
Order ==
    <<"widgets", "title", "fetch1", "fetch2", "name1", "name2", "subheader",
      "calc1", "calc2", "display_results", "scoreboard", "grid",
      "chart_normalized", "chart", "growth1", "growth2", "investment",
      "yearly_chart", "error", "info1", "info2", "news1", "news2">>
Rank(e) == CHOOSE k \in 1..Len(Order) : Order[k] = e

C5_SinglePass ==
    /\ trace # <<>> => trace[1] = "widgets"
    /\ \A i \in 1..(Len(trace) - 1) : Rank(trace[i]) < Rank(trace[i + 1])
    /\ (\E c \in ComputeEvents : Happened(c)) =>
           Happened("fetch1") /\ Happened("fetch2")
    /\ (\E r \in ResultEvents : Happened(r)) =>
           Happened("calc1") /\ Happened("calc2")

\* a run that went through to the last section
C5_Witness ==
    /\ pc = "done"
    /\ Happened("yearly_chart")
    /\ Happened("news2")

\* C6: the scoreboard gives each ticker the number of years in which its
\* return is strictly greater; a tied year counts for neither.
C6_Scoreboard ==
    Happened("scoreboard") =>
        LET n == Len(performance1.rows)
            v1(k) == performance1.rows[k].value
            v2(k) == performance2.rows[k].value
            won1 == {k \in 1..n : Gt(v1(k), v2(k))}
            won2 == {k \in 1..n : Gt(v2(k), v1(k))}
            tied == {k \in 1..n : Eq(v1(k), v2(k))}
        IN  /\ index(performance1) = index(performance2)
            /\ shown.scores[1] = Cardinality(won1)
            /\ shown.scores[2] = Cardinality(won2)
            /\ shown.scores[1] + shown.scores[2] = n - Cardinality(tied)

\* two years compared, one won by ticker 1 and one tied
C6_Witness ==
    /\ Happened("scoreboard")
    /\ Len(performance1.rows) = 2
    /\ shown.scores = <<1, 0>>

\* C7: for a non-empty series calculate_investment_growth returns
\* (last close / first close) * 100, which is 100 more than the cumulative
\* percentage return; the call leaves the series as it was.
C7_Growth ==
    (pc = "fn_growth" /\ "Close" \in data1.columns /\ data1.rows # <<>>) =>
        LET g == shown.investment[1]
            start == data1.rows[1].Close
            end == data1.rows[Len(data1.rows)].Close
        IN  /\ g.kind = "float"
            /\ g.den # 0
            /\ g.num * start = end * DEFAULT_INVESTMENT * g.den
            /\ Eq(Sub(g, Float(DEFAULT_INVESTMENT, 1)), PercentChange(start, end))

C7_InvestmentGrowth ==
    /\ []C7_Growth
    /\ [][pc' = "fn_growth" => data1' = data1]_vars

\* a series that doubled: 100 invested is 200
C7_Witness ==
    /\ pc = "fn_growth"
    /\ "Close" \in data1.columns
    /\ Len(data1.rows) > 1
    /\ Eq(shown.investment[1], Float(200, 1))

\* C2 as claimed: no exception leaves main.
C2_NoExceptionLeavesMain == pc # "crashed"

\* C4 as claimed: with an empty series nothing is computed or rendered; with
\* two non-empty series both yearly performances are computed and
\* display_results is called.
NonEmpty(d) == d.kind = "DataFrame" /\ d.rows # <<>>
IsEmpty(d) == d.kind = "DataFrame" /\ d.rows = <<>>

C4_SkipEmptySeries ==
    (pc \in {"done", "crashed"} /\ Happened("fetch2")) =>
        /\ (IsEmpty(data1) \/ IsEmpty(data2)) =>
               \A e \in ComputeEvents \cup ResultEvents : ~Happened(e)
        /\ (NonEmpty(data1) /\ NonEmpty(data2)) =>
               /\ Happened("calc1")
               /\ Happened("calc2")
               /\ Happened("display_results")

\* C9 as claimed: the Winner column agrees with the scoreboard.
C9_WinnerMatchesScoreboard ==
    Happened("grid") =>
        /\ Cardinality({k \in 1..Len(shown.grid) : shown.grid[k].Winner = ticker1})
               = shown.scores[1]
        /\ Cardinality({k \in 1..Len(shown.grid) : shown.grid[k].Winner = ticker2})
               = shown.scores[2]

\* C10 as claimed: display_results never ends in its error branch, and the
\* two yearly-return series it is given have the same years.
C10_ResultsAlwaysRendered ==
    Happened("display_results") =>
        /\ ~shown.error
        /\ Happened("scoreboard")
        /\ index(performance1) = index(performance2)
        /\ Len(shown.grid) = Len(performance1.rows)

====
